---- MODULE Spec2Model ----
(***************************************************************************)
(* Model of src/app.py: the websocket ingest handler (websocket_endpoint,  *)
(* handle_websocket_data), the registry user_queue_map, the per-session    *)
(* asyncio.Queue and the render loop (stream / generate).                  *)
(*                                                                         *)
(* The server is one asyncio event loop: the code between two awaits runs  *)
(* atomically, so each action below is one such segment.  predict() is a   *)
(* synchronous call inside the coroutine generate(): while it runs, the    *)
(* event loop runs nothing else.                                           *)
(***************************************************************************)
EXTENDS Integers, Sequences, FiniteSets, TLC

\* ---------------------------------------------------------------- constants
MAX_QUEUE_SIZE == 4

\* ---------------------------------------------------------------- bounds
\* connections that ever open (each gets its own uuid4, modelled as its index)
NumConns == 5
\* connections whose clients take part in the full specification
NumClients == 2
\* GET /stream requests
NumStreams == 1
\* GET /stream requests when several address one session
NumLoops == 2
\* sessions that several stream requests address
NumShared == 1
\* distinct decodable images a client sends (0 stands for undecodable bytes)
MaxFrame == 2
\* wall clock range
MaxTime == 2
\* chunks one render loop emits
MaxChunks == 1

Conns == 1..NumConns
Clients == 1..NumClients
Streams == 1..NumStreams
Loops == 1..NumLoops
Shared == 1..NumShared
Frames == 1..MaxFrame
Data == 0..MaxFrame
\* values of the TIMEOUT environment variable (0: disabled)
TimeoutValues == {0, 1}
\* uuids a stream request can name: the clients' and one that is never issued
StreamIds == 1..(NumClients + 1)

FieldNames == {"seed", "prompt", "strength", "guidance_scale"}
\* JSON parameter messages: the keys present and the seed's value
ParamMsgs ==
  { [fields |-> FieldNames, seed |-> 1],
    [fields |-> FieldNames, seed |-> 2],
    [fields |-> FieldNames \ {"prompt"}, seed |-> 1] }

VARIABLES
  TIMEOUT,          \* float(os.environ.get("TIMEOUT", 0))
  now,              \* time.time()
  user_queue_map,   \* uid -> [params]; the entry's queue is queue[uid]
  queue,            \* the asyncio.Queue object created for uid (items, oldest first)
  pc,               \* position of websocket_endpoint for each connection
  sent,             \* JSON messages the server sent on each websocket
  got_params,       \* the parameter message each connection delivered (history)
  last_time,        \* handle_websocket_data's local last_time
  last_put,         \* history: the image of the latest queue.put of a live session, 0: none
  dropped,          \* history: the unconsumed image that put discarded, 0: none
  rpc,              \* position of stream()/generate() for each stream request
  rqueue,           \* the queue captured by stream(): the uid whose queue it is
  rparams,          \* the params captured by stream()
  input_image,      \* generate()'s local input_image
  status,           \* HTTP status of the stream response, 0: none yet
  chunks            \* chunks generate() has yielded

vars == << TIMEOUT, now, user_queue_map, queue, pc, sent, got_params, last_time,
           last_put, dropped, rpc, rqueue, rparams, input_image, status, chunks >>

connVars == << pc, sent, got_params, last_time >>
loopVars == << rpc, rqueue, rparams, input_image, status, chunks >>

NoParams == [fields |-> {}, seed |-> 0]

Init ==
  /\ TIMEOUT \in TimeoutValues
  /\ now = 0
  /\ user_queue_map = << >>
  /\ queue = [u \in Conns |-> << >>]
  /\ pc = [c \in Conns |-> "idle"]
  /\ sent = [c \in Conns |-> << >>]
  /\ got_params = [c \in Conns |-> NoParams]
  /\ last_time = [c \in Conns |-> 0]
  /\ last_put = [u \in Conns |-> 0]
  /\ dropped = [u \in Conns |-> 0]
  /\ rpc = [r \in Loops |-> "idle"]
  /\ rqueue = [r \in Loops |-> 0]
  /\ rparams = [r \in Loops |-> NoParams]
  /\ input_image = [r \in Loops |-> 0]
  /\ status = [r \in Loops |-> 0]
  /\ chunks = [r \in Loops |-> 0]

\* ---------------------------------------------------------------- helpers
\* len(user_queue_map)
len(map) == Cardinality(DOMAIN map)

\* an insert that stores the new parameters in every entry (one shared params object)
insert_shared(map, uid, params) ==
  [u \in DOMAIN map \cup {uid} |-> [params |-> params]]

\* user_queue_map[uid] = {...}
insert(map, uid, params) ==
  [u \in DOMAIN map \cup {uid} |-> IF u = uid THEN [params |-> params] ELSE map[u]]

\* user_queue_map.pop(uid, None): the map without uid
pop(map, uid) == [u \in DOMAIN map \ {uid} |-> map[u]]

\* the message used without validation
InputParams_unchecked(m) == TRUE

\* InputParams(**params): pydantic accepts the message iff every field is present
InputParams(m) == FieldNames \subseteq m.fields

\* a decoder that raises on nothing
Image_open_lenient(data) == TRUE

\* Image.open(io.BytesIO(data)) succeeds
Image_open(data) == data \in Frames

\* while not queue.empty(): queue.get_nowait()
drain(q) == << >>

\* queue.put without the drain loop before it
put_nodrain(q, image) == Append(q, image)

\* the drain loop followed by queue.put(pil_image)
put(q, image) == Append(drain(q), image)

\* the synchronous predict() holds the event loop: nothing else is scheduled
loop_free == \A r \in Loops : rpc[r] # "predict"

Terminal == {"rejected", "disconnected", "decode_error", "timedout", "crashed"}

\* ---------------------------------------------------------------- websocket_endpoint
\* an accept that inserts the session as soon as the capacity check passes
Connect_reserving(c) ==
  /\ loop_free
  /\ pc[c] = "idle"
  /\ ~(len(user_queue_map) >= MAX_QUEUE_SIZE)
  /\ user_queue_map' = insert(user_queue_map, c, NoParams)
  /\ sent' = [sent EXCEPT ![c] = Append(@, [status |-> "success", userId |-> c])]
  /\ pc' = [pc EXCEPT ![c] = "admitted"]
  /\ UNCHANGED << TIMEOUT, now, queue, got_params, last_time, last_put, dropped >>
  /\ UNCHANGED loopVars

\* accept, capacity check passes, uuid4, send success, await receive_json
Connect(c) ==
  /\ loop_free
  /\ pc[c] = "idle"
  /\ ~(len(user_queue_map) >= MAX_QUEUE_SIZE)
  /\ sent' = [sent EXCEPT ![c] = Append(@, [status |-> "success", userId |-> c])]
  /\ pc' = [pc EXCEPT ![c] = "admitted"]
  /\ UNCHANGED << TIMEOUT, now, user_queue_map, queue, got_params, last_time, last_put, dropped >>
  /\ UNCHANGED loopVars

\* a refusal that has already registered the connection's id
ConnectFull_registered(c) ==
  /\ loop_free
  /\ pc[c] = "idle"
  /\ len(user_queue_map) >= MAX_QUEUE_SIZE
  /\ user_queue_map' = insert(user_queue_map, c, NoParams)
  /\ sent' = [sent EXCEPT ![c] = Append(@, [status |-> "error", userId |-> 0])]
  /\ pc' = [pc EXCEPT ![c] = "rejected"]
  /\ UNCHANGED << TIMEOUT, now, queue, got_params, last_time, last_put, dropped >>
  /\ UNCHANGED loopVars

\* accept, capacity check fails: send the error, close, return
ConnectFull(c) ==
  /\ loop_free
  /\ pc[c] = "idle"
  /\ len(user_queue_map) >= MAX_QUEUE_SIZE
  /\ sent' = [sent EXCEPT ![c] = Append(@, [status |-> "error", userId |-> 0])]
  /\ pc' = [pc EXCEPT ![c] = "rejected"]
  /\ UNCHANGED << TIMEOUT, now, user_queue_map, queue, got_params, last_time, last_put, dropped >>
  /\ UNCHANGED loopVars

\* receive_json returns m.  Valid: insert the session, enter handle_websocket_data
\* and await the first frame.  Invalid: ValidationError leaves the try block; the
\* finally block pops nothing and raises AttributeError on None.get.
ReceiveParams(c, m) ==
  /\ loop_free
  /\ pc[c] = "admitted"
  /\ got_params' = [got_params EXCEPT ![c] = m]
  /\ IF InputParams(m)
       THEN /\ user_queue_map' = insert(user_queue_map, c, m)
            /\ queue' = [queue EXCEPT ![c] = << >>]
            /\ last_time' = [last_time EXCEPT ![c] = now]
            /\ pc' = [pc EXCEPT ![c] = "streaming"]
       ELSE /\ user_queue_map' = pop(user_queue_map, c)
            /\ pc' = [pc EXCEPT ![c] = "crashed"]
            /\ UNCHANGED << queue, last_time >>
  /\ UNCHANGED << TIMEOUT, now, sent, last_put, dropped >>
  /\ UNCHANGED loopVars

\* receive_json raises WebSocketDisconnect: logged, then the finally block pops
\* nothing and raises AttributeError on None.get.
DisconnectBeforeParams(c) ==
  /\ loop_free
  /\ pc[c] = "admitted"
  /\ user_queue_map' = pop(user_queue_map, c)
  /\ pc' = [pc EXCEPT ![c] = "crashed"]
  /\ UNCHANGED << TIMEOUT, now, queue, sent, got_params, last_time, last_put, dropped >>
  /\ UNCHANGED loopVars

\* ---------------------------------------------------------------- handle_websocket_data
\* a finally block that empties the queue but leaves the entry
finally_nopop(map, uid) == map

\* the finally block of websocket_endpoint for an inserted session: pop the entry,
\* then empty its queue
finally_map(map, uid) == pop(map, uid)

\* the subtraction written the other way round
timeout_expired_reversed(timeout, elapsed) == timeout > 0 /\ (0 - elapsed) > timeout

\* TIMEOUT > 0 and time.time() - last_time > TIMEOUT
timeout_expired(timeout, elapsed) == timeout > 0 /\ elapsed > timeout

\* receive_bytes returns data.  Decodable: drain, put, then the timeout check; on
\* timeout the notice is sent and the handler awaits the send and the close.
\* Undecodable: Image.open raises, `except Exception` (outside the while loop) logs
\* it, handle_websocket_data returns and the finally block runs.
ReceiveFrame(c, data) ==
  /\ loop_free
  /\ pc[c] = "streaming"
  /\ IF Image_open(data)
       THEN /\ queue' = [queue EXCEPT ![c] = put(@, data)]
            /\ last_put' = [last_put EXCEPT ![c] = data]
            /\ dropped' = [dropped EXCEPT ![c] =
                             IF queue[c] = << >> THEN 0 ELSE Head(queue[c])]
            /\ UNCHANGED user_queue_map
            /\ IF timeout_expired(TIMEOUT, now - last_time[c])
                 THEN /\ sent' = [sent EXCEPT ![c] =
                                    Append(@, [status |-> "timeout", userId |-> c])]
                      /\ pc' = [pc EXCEPT ![c] = "timeout_sent"]
                 ELSE UNCHANGED << sent, pc >>
       ELSE /\ user_queue_map' = finally_map(user_queue_map, c)
            /\ queue' = [queue EXCEPT ![c] = drain(@)]
            /\ pc' = [pc EXCEPT ![c] = "decode_error"]
            /\ last_put' = [last_put EXCEPT ![c] = 0]
            /\ dropped' = [dropped EXCEPT ![c] = 0]
            /\ UNCHANGED sent
  /\ UNCHANGED << TIMEOUT, now, got_params, last_time >>
  /\ UNCHANGED loopVars

\* the timeout notice is out: websocket.close(), return, finally block
TimeoutClose(c) ==
  /\ loop_free
  /\ pc[c] = "timeout_sent"
  /\ user_queue_map' = finally_map(user_queue_map, c)
  /\ queue' = [queue EXCEPT ![c] = drain(@)]
  /\ pc' = [pc EXCEPT ![c] = "timedout"]
  /\ last_put' = [last_put EXCEPT ![c] = 0]
  /\ dropped' = [dropped EXCEPT ![c] = 0]
  /\ UNCHANGED << TIMEOUT, now, sent, got_params, last_time >>
  /\ UNCHANGED loopVars

\* receive_bytes raises WebSocketDisconnect: `except Exception` logs it,
\* handle_websocket_data returns and the finally block runs
ReceiveDisconnect(c) ==
  /\ loop_free
  /\ pc[c] = "streaming"
  /\ user_queue_map' = finally_map(user_queue_map, c)
  /\ queue' = [queue EXCEPT ![c] = drain(@)]
  /\ pc' = [pc EXCEPT ![c] = "disconnected"]
  /\ last_put' = [last_put EXCEPT ![c] = 0]
  /\ dropped' = [dropped EXCEPT ![c] = 0]
  /\ UNCHANGED << TIMEOUT, now, sent, got_params, last_time >>
  /\ UNCHANGED loopVars

\* ---------------------------------------------------------------- get_queue_size
\* GET /queue_size: len(user_queue_map)
get_queue_size == len(user_queue_map)

\* ---------------------------------------------------------------- stream / generate
\* GET /stream/{user_id}: user_queue_map[uid] raises KeyError for an absent uid
\* (an unhandled exception: HTTP 500); otherwise the queue and the params are
\* captured and the StreamingResponse starts generate().  The `if not queue` test
\* never fires: an asyncio.Queue object is always truthy.
stream(r, uid) ==
  /\ loop_free
  /\ rpc[r] = "idle"
  /\ IF uid \in DOMAIN user_queue_map
       THEN /\ rqueue' = [rqueue EXCEPT ![r] = uid]
            /\ rparams' = [rparams EXCEPT ![r] = user_queue_map[uid].params]
            /\ status' = [status EXCEPT ![r] = 200]
            /\ rpc' = [rpc EXCEPT ![r] = "get"]
       ELSE /\ status' = [status EXCEPT ![r] = 500]
            /\ rpc' = [rpc EXCEPT ![r] = "error"]
            /\ UNCHANGED << rqueue, rparams >>
  /\ UNCHANGED << TIMEOUT, now, user_queue_map, queue, last_put, dropped, input_image, chunks >>
  /\ UNCHANGED connVars

\* a get that reads the oldest item and leaves it in the queue
generate_get_peek(r) ==
  /\ loop_free
  /\ rpc[r] = "get"
  /\ chunks[r] < MaxChunks
  /\ queue[rqueue[r]] # << >>
  /\ input_image' = [input_image EXCEPT ![r] = Head(queue[rqueue[r]])]
  /\ rpc' = [rpc EXCEPT ![r] = "predict"]
  /\ UNCHANGED << TIMEOUT, now, user_queue_map, queue, last_put, dropped, rqueue, rparams,
                  status, chunks >>
  /\ UNCHANGED connVars

\* input_image = await queue.get() returns the oldest item, then predict() is
\* entered (no await in between)
generate_get(r) ==
  /\ loop_free
  /\ rpc[r] = "get"
  /\ chunks[r] < MaxChunks
  /\ queue[rqueue[r]] # << >>
  /\ input_image' = [input_image EXCEPT ![r] = Head(queue[rqueue[r]])]
  /\ queue' = [queue EXCEPT ![rqueue[r]] = Tail(@)]
  /\ rpc' = [rpc EXCEPT ![r] = "predict"]
  /\ UNCHANGED << TIMEOUT, now, user_queue_map, last_put, dropped, rqueue, rparams, status, chunks >>
  /\ UNCHANGED connVars

\* None
None == 0

\* predict(): None when the pipeline reports nsfw content, else the result image
\* (identified with the input image it was computed from)
predict(image, nsfw) == IF nsfw THEN None ELSE image

\* generate() without `if image is None: continue`: image.save raises on None and
\* the generator ends
generate_predict_nocheck(r, nsfw) ==
  /\ rpc[r] = "predict"
  /\ IF predict(input_image[r], nsfw) = None
       THEN /\ rpc' = [rpc EXCEPT ![r] = "error"]
            /\ UNCHANGED chunks
       ELSE /\ chunks' = [chunks EXCEPT ![r] = @ + 1]
            /\ rpc' = [rpc EXCEPT ![r] = "sleep"]
  /\ UNCHANGED << TIMEOUT, now, user_queue_map, queue, last_put, dropped, rqueue, rparams,
                  input_image, status >>
  /\ UNCHANGED connVars

\* predict() returns.  nsfw: None, `continue`, back to queue.get() with nothing
\* yielded.  Otherwise the JPEG chunk is yielded and the loop sleeps.
generate_predict(r, nsfw) ==
  /\ rpc[r] = "predict"
  /\ IF predict(input_image[r], nsfw) = None
       THEN /\ rpc' = [rpc EXCEPT ![r] = "get"]
            /\ UNCHANGED chunks
       ELSE /\ chunks' = [chunks EXCEPT ![r] = @ + 1]
            /\ rpc' = [rpc EXCEPT ![r] = "sleep"]
  /\ UNCHANGED << TIMEOUT, now, user_queue_map, queue, last_put, dropped, rqueue, rparams,
                  input_image, status >>
  /\ UNCHANGED connVars

\* asyncio.sleep(1/120) is over: next iteration
generate_sleep(r) ==
  /\ loop_free
  /\ rpc[r] = "sleep"
  /\ rpc' = [rpc EXCEPT ![r] = "get"]
  /\ UNCHANGED << TIMEOUT, now, user_queue_map, queue, last_put, dropped, rqueue, rparams,
                  input_image, status, chunks >>
  /\ UNCHANGED connVars

\* a clock with a timer on it: when it advances, every streaming session whose
\* time is up is sent the timeout notice
Tick_timer ==
  /\ now < MaxTime
  /\ now' = now + 1
  /\ sent' = [c \in Conns |->
               IF pc[c] = "streaming" /\ timeout_expired(TIMEOUT, now + 1 - last_time[c])
                 THEN Append(sent[c], [status |-> "timeout", userId |-> c])
                 ELSE sent[c]]
  /\ pc' = [c \in Conns |->
             IF pc[c] = "streaming" /\ timeout_expired(TIMEOUT, now + 1 - last_time[c])
               THEN "timeout_sent"
               ELSE pc[c]]
  /\ UNCHANGED << TIMEOUT, user_queue_map, queue, last_put, dropped, got_params, last_time >>
  /\ UNCHANGED loopVars

\* time.time() advances
Tick ==
  /\ now < MaxTime
  /\ now' = now + 1
  /\ UNCHANGED << TIMEOUT, user_queue_map, queue, last_put, dropped >>
  /\ UNCHANGED connVars
  /\ UNCHANGED loopVars

\* ---------------------------------------------------------------- specifications
Next ==
  \/ \E c \in Clients : Connect(c)
  \/ \E c \in Clients, m \in ParamMsgs : ReceiveParams(c, m)
  \/ \E c \in Clients : DisconnectBeforeParams(c)
  \/ \E c \in Clients, data \in Data : ReceiveFrame(c, data)
  \/ \E c \in Clients : TimeoutClose(c)
  \/ \E c \in Clients : ReceiveDisconnect(c)
  \/ \E r \in Streams, uid \in StreamIds : stream(r, uid)
  \/ \E r \in Streams : generate_get(r)
  \/ \E r \in Streams, nsfw \in BOOLEAN : generate_predict(r, nsfw)
  \/ \E r \in Streams : generate_sleep(r)
  \/ Tick

Spec == Init /\ [][Next]_vars

\* Admission alone: every connection opens, binds parameters and disconnects; no
\* frames, no stream requests.
NextAdmit ==
  \/ \E c \in Conns : Connect(c)
  \/ \E c \in Conns : ConnectFull(c)
  \/ \E c \in Conns, m \in ParamMsgs : ReceiveParams(c, m)
  \/ \E c \in Conns : DisconnectBeforeParams(c)
  \/ \E c \in Conns : ReceiveDisconnect(c)

SpecAdmit == Init /\ [][NextAdmit]_vars

\* The event loop runs every coroutine that is ready: the render loop's steps and
\* the handler's close after a timeout notice.  Clients owe nothing.
Fairness ==
  /\ \A r \in Streams : WF_vars(generate_get(r))
  /\ \A r \in Streams : WF_vars(\E nsfw \in BOOLEAN : generate_predict(r, nsfw))
  /\ \A r \in Streams : WF_vars(generate_sleep(r))
  /\ \A c \in Clients : WF_vars(TimeoutClose(c))

FairSpec == Init /\ [][Next]_vars /\ Fairness

\* Several stream requests for the sessions in Shared.
NextLoops ==
  \/ \E c \in Shared : Connect(c)
  \/ \E c \in Shared, m \in ParamMsgs : ReceiveParams(c, m)
  \/ \E c \in Shared : DisconnectBeforeParams(c)
  \/ \E c \in Shared, data \in Data : ReceiveFrame(c, data)
  \/ \E c \in Shared : TimeoutClose(c)
  \/ \E c \in Shared : ReceiveDisconnect(c)
  \/ \E r \in Loops, uid \in Shared : stream(r, uid)
  \/ \E r \in Loops : generate_get(r)
  \/ \E r \in Loops, nsfw \in BOOLEAN : generate_predict(r, nsfw)
  \/ \E r \in Loops : generate_sleep(r)
  \/ Tick

SpecLoops == Init /\ [][NextLoops]_vars

\* ================================================================ claims
\* the server answered connection c with a success message carrying its id
Answered(c) == \E i \in DOMAIN sent[c] : sent[c][i] = [status |-> "success", userId |-> c]

\* connection c has been answered with an id and has not ended
Live(c) == Answered(c) /\ pc[c] \notin Terminal

\* C1: the registry never holds more than MAX_QUEUE_SIZE entries.
C1_RegistryWithinCapacity == len(user_queue_map) <= MAX_QUEUE_SIZE

\* C2: once MAX_QUEUE_SIZE connections hold an id and are still open, no further
\* connection is given an id: at most MAX_QUEUE_SIZE connections are live at once.
C2_FullServerRefuses == Cardinality({c \in Conns : Live(c)}) <= MAX_QUEUE_SIZE

\* C3: the image a get hands to predict is the most recent put on that queue, and
\* an image waiting in the queue is the most recent put.
C3_LatestWins ==
  /\ \A r \in Streams : rpc[r] = "predict" => input_image[r] = last_put[rqueue[r]]
  /\ \A u \in Conns : queue[u] # << >> => Head(queue[u]) = last_put[u]

\* C3 witness: image 1 was put and, before any get, replaced by image 2, which the
\* render loop then took and passed to predict.
C3_Witness ==
  \E r \in Streams :
    /\ rpc[r] = "predict"
    /\ input_image[r] = 2
    /\ dropped[rqueue[r]] = 1

\* render loop r is suspended in queue.get() on the queue of a session whose
\* handler has run its teardown
Abandoned(r) == rpc[r] = "get" /\ pc[rqueue[r]] \in Terminal

\* C4: a render loop suspended in get on the slot of a torn-down session is
\* released: it does not stay suspended in that get forever.
C4_TeardownReleasesGet == \A r \in Streams : Abandoned(r) ~> (rpc[r] # "get")

\* connection c delivered a parameter message that passed validation: its handler
\* inserted a session
Inserted(c) == FieldNames \subseteq got_params[c].fields

\* C5: once a handler that inserted a session has returned, by whichever path, its
\* id is not in the registry.
C5_NoEntryOutlivesHandler ==
  \A c \in Conns : (pc[c] \in Terminal /\ Inserted(c)) => c \notin DOMAIN user_queue_map

\* C5 witness: one handler returned after a disconnect, another after a timeout.
C5_Witness ==
  \E c, d \in Conns :
    /\ pc[c] = "disconnected" /\ Inserted(c)
    /\ pc[d] = "timedout" /\ Inserted(d)

TimeoutNotice(c) == [status |-> "timeout", userId |-> c]

\* C7: with TIMEOUT > 0, the step that receives and puts a frame after more than
\* TIMEOUT has elapsed sends the timeout notice carrying the session id; the
\* handler's next step closes and removes exactly that session from the registry.
C7_TimeoutEndsSession ==
  [][\A c \in Conns :
       /\ ( /\ \E data \in Frames : ReceiveFrame(c, data)
            /\ TIMEOUT > 0
            /\ now - last_time[c] > TIMEOUT )
          => /\ sent'[c] = Append(sent[c], TimeoutNotice(c))
             /\ pc'[c] = "timeout_sent"
             /\ queue'[c] # << >>
       /\ (pc[c] = "timeout_sent" /\ pc'[c] # "timeout_sent")
          => /\ pc'[c] = "timedout"
             /\ c \in DOMAIN user_queue_map
             /\ DOMAIN user_queue_map' = DOMAIN user_queue_map \ {c}
             /\ len(user_queue_map') = len(user_queue_map) - 1]_vars

\* C7 witness: a session has timed out, been told so and been removed.
C7_Witness ==
  \E c \in Conns :
    /\ TIMEOUT > 0
    /\ pc[c] = "timedout"
    /\ sent[c][Len(sent[c])] = TimeoutNotice(c)
    /\ c \notin DOMAIN user_queue_map

\* C8: a stream request naming an id absent from the registry is answered with
\* 404 and starts no render loop.
C8_UnknownSessionNotFound ==
  [][\A r \in Streams, uid \in StreamIds :
       (stream(r, uid) /\ uid \notin DOMAIN user_queue_map) =>
         (status'[r] = 404 /\ rpc'[r] # "get")]_vars

\* the message lacks a field InputParams requires
Malformed(m) == m # NoParams /\ ~(FieldNames \subseteq m.fields)

\* C9: the step that receives a malformed parameter message changes neither the
\* registry nor any queue and ends the handler; from then on the connection has no
\* registry entry, its handler stays ended and its queue stays empty.
C9_MalformedParamsRefused ==
  [][\A c \in Conns :
       /\ \A m \in ParamMsgs :
            (ReceiveParams(c, m) /\ Malformed(m)) =>
              /\ user_queue_map' = user_queue_map
              /\ queue' = queue
              /\ pc'[c] \in Terminal
       /\ Malformed(got_params[c]) =>
            /\ pc'[c] = pc[c]
            /\ c \notin DOMAIN user_queue_map'
            /\ queue'[c] = << >>
            /\ last_put'[c] = 0]_vars

\* C9 witness: a connection was refused for malformed parameters while another
\* session is registered.
C9_Witness ==
  \E c \in Conns :
    /\ Malformed(got_params[c])
    /\ pc[c] = "crashed"
    /\ user_queue_map # << >>

\* C10: the step in which predict rejects the image yields no chunk, returns the
\* render loop to queue.get() and changes neither the registry, nor any handler's
\* position, nor any queue.
C10_RejectionSkipsFrame ==
  [][\A r \in Streams :
       generate_predict(r, TRUE) =>
         /\ chunks' = chunks
         /\ rpc'[r] = "get"
         /\ user_queue_map' = user_queue_map
         /\ pc' = pc
         /\ queue' = queue]_vars

\* C10 witness: the render loop took an image, predict rejected it, and the loop is
\* back at queue.get() with nothing yielded while its session still streams.
C10_Witness ==
  \E r \in Streams :
    /\ rpc[r] = "get"
    /\ input_image[r] \in Frames
    /\ chunks[r] = 0
    /\ pc[rqueue[r]] = "streaming"
    /\ rqueue[r] \in DOMAIN user_queue_map

\* C11: every session's queue holds at most one pending image.
C11_AtMostOnePending == \A u \in Conns : Len(queue[u]) <= 1

\* C11 witness: a second frame arrived before the first was consumed and the queue
\* holds one image.
C11_Witness ==
  \E u \in Conns : Len(queue[u]) = 1 /\ dropped[u] # 0 /\ pc[u] = "streaming"

\* C12: the teardown of a handler whose connection ended before a session was
\* inserted removes nothing and raises nothing: the registry is unchanged and the
\* handler does not end in the AttributeError state "crashed".
C12_TeardownWithoutSessionIsNoop ==
  [][\A c \in Conns :
       DisconnectBeforeParams(c) =>
         /\ user_queue_map' = user_queue_map
         /\ pc'[c] # "crashed"]_vars

\* C13: every id sent in a success message whose handler has not ended is a key of
\* the registry.
C13_IssuedIdRegistered ==
  \A c \in Conns : Live(c) => c \in DOMAIN user_queue_map

\* render loop r runs generate() on the queue of session u
Running(r, u) == rpc[r] \in {"get", "predict", "sleep"} /\ rqueue[r] = u

\* C14: at most one render loop runs per session, however many stream requests
\* name its id.
C14_OneRenderLoopPerSession ==
  \A u \in Conns : Cardinality({r \in Loops : Running(r, u)}) <= 1

\* C15: the step in which a get returns hands the queue's image to that one render
\* loop and leaves the queue empty, so no other get can return the same image;
\* every other render loop stays where it was, a pending get stays pending.
C15_OneGetPerImage ==
  [][\A r \in Loops :
       generate_get(r) =>
         /\ input_image'[r] = Head(queue[rqueue[r]])
         /\ queue'[rqueue[r]] = << >>
         /\ \A o \in Loops \ {r} :
              rpc'[o] = rpc[o] /\ input_image'[o] = input_image[o]]_vars

\* C15 witness: two gets were pending on one queue; one has been given the image,
\* the other is still pending on the now empty queue.
C15_Witness ==
  \E r, o \in Loops :
    /\ r # o
    /\ rqueue[r] = rqueue[o]
    /\ rpc[r] = "predict"
    /\ rpc[o] = "get"
    /\ queue[rqueue[r]] = << >>

\* C16: while a render loop is inside predict, the handler of every other session
\* can take its next step (receive a frame or a disconnect) and a new connection
\* can be admitted or refused.
C16_PredictDoesNotBlockOthers ==
  \A r \in Streams :
    rpc[r] = "predict" =>
      \A c \in Clients \ {rqueue[r]} :
        /\ pc[c] = "streaming" =>
             /\ ENABLED ReceiveDisconnect(c)
             /\ \A data \in Data : ENABLED ReceiveFrame(c, data)
        /\ pc[c] = "idle" => ENABLED (Connect(c) \/ ConnectFull(c))

\* C17: a handler is sent the timeout notice only in a step that receives and puts
\* a frame, and ends as timed out only after that notice; the passing of time alone
\* moves no handler, however long the session has lasted.
C17_TimeoutOnlyOnFrame ==
  [][\A c \in Conns :
       /\ (pc[c] # "timeout_sent" /\ pc'[c] = "timeout_sent")
            => \E data \in Frames : ReceiveFrame(c, data)
       /\ (pc[c] # "timedout" /\ pc'[c] = "timedout") => pc[c] = "timeout_sent"
       /\ now' # now => (pc' = pc /\ sent' = sent)]_vars

\* C17 witness: a session has outlived TIMEOUT, its client sends nothing, and it
\* is still streaming and registered.
C17_Witness ==
  \E c \in Conns :
    /\ TIMEOUT > 0
    /\ now - last_time[c] > TIMEOUT
    /\ pc[c] = "streaming"
    /\ c \in DOMAIN user_queue_map

\* C18: every registry entry holds the parameter message its own connection
\* delivered, and every running render loop holds (and passes to predict) the
\* parameters of the session whose queue it reads.
C18_ParamsFixedPerSession ==
  /\ \A u \in DOMAIN user_queue_map : user_queue_map[u].params = got_params[u]
  /\ \A r \in Streams :
       rpc[r] \in {"get", "predict", "sleep"} => rparams[r] = got_params[rqueue[r]]

\* C18 witness: a render loop is inside predict for one session while another
\* session with different parameters is registered.
C18_Witness ==
  \E r \in Streams :
    /\ rpc[r] = "predict"
    /\ \E u \in DOMAIN user_queue_map :
         u # rqueue[r] /\ user_queue_map[u].params # rparams[r]

\* C19: the step that refuses a connection for lack of capacity changes neither
\* the registry, nor any queue, nor any bound parameters, and the refused
\* connection is sent only the error, never an id.
C19_RefusalMutatesNothing ==
  [][\A c \in Conns :
       (pc[c] = "idle" /\ pc'[c] = "rejected") =>
         /\ user_queue_map' = user_queue_map
         /\ queue' = queue
         /\ got_params' = got_params
         /\ \A i \in DOMAIN sent'[c] :
              sent'[c][i].status = "error" /\ sent'[c][i].userId # c]_vars

\* C19 witness: a connection was refused while the registry is at capacity.
C19_Witness ==
  \E c \in Conns : pc[c] = "rejected" /\ len(user_queue_map) = MAX_QUEUE_SIZE

\* the handler of connection c is between parameter binding and teardown
Bound(c) == pc[c] \in {"streaming", "timeout_sent"}

\* C20: the registry's keys are exactly the connections whose handler is between
\* parameter binding and teardown, and that is the number the capacity check and
\* the status query read; a connection that holds an id but has not delivered its
\* parameters has no entry.
C20_RegistryIsBoundHandlers ==
  /\ DOMAIN user_queue_map = {c \in Conns : Bound(c)}
  /\ get_queue_size = Cardinality({c \in Conns : Bound(c)})
  /\ \A c \in Conns : pc[c] = "admitted" => c \notin DOMAIN user_queue_map

\* C20 witness: one connection holds an id and has not delivered its parameters,
\* another streams, and the status query reads 1.
C20_Witness ==
  \E c, d \in Conns :
    /\ pc[c] = "admitted" /\ Answered(c)
    /\ pc[d] = "streaming"
    /\ get_queue_size = 1

====
